---- MODULE Spec2Model ----
(***************************************************************************)
(* A model of experimentkit: the override engine and config hasher of      *)
(* core/config.py, the run command of cli.py with the provenance           *)
(* collector of core/tracking.py, and the report assembler of              *)
(* core/reporting.py.                                                      *)
(*                                                                         *)
(* A Python str is a tuple of one-character strings; a Python dict is an   *)
(* object of the heap, a sequence of <<key, value>> entries in insertion   *)
(* order; a value is <<"none">>, <<"int", n>>, <<"float", w, f>>,          *)
(* <<"str", s>> or <<"dict", id>>, a reference to a heap object.           *)
(***************************************************************************)
EXTENDS Integers, Sequences, FiniteSets, TLC

\* Longest override string of the parser's specification.
MaxLen == 4
\* Deepest nesting of an input config.
MaxDepth == 2
\* Most calls of generate_report with the same arguments.
MaxCalls == 2
\* Longest list of --set overrides of the override engine's specification.
MaxOverrides == 2
\* Most keys, at all levels together, of an input config.
MaxEntries == 4

VARIABLES
    s,          \* parse_override: the argument
    parsed,     \* parse_override: <<"todo">>, <<"ok", keys, value>> or <<"raise", error>>
    heap,       \* the interpreter's dict objects, by id
    cfg,        \* apply_overrides: the id of the argument cfg
    overrides,  \* apply_overrides: the list of override strings
    before,     \* the structure of cfg when apply_overrides was called
    out,        \* apply_overrides: <<"todo">>, <<"ok", id>> or <<"raise", error>>
    c2,         \* config_hash: a second config, the id of its root
    hashes,     \* config_hash: <<"todo">> or <<"ok", hash of cfg, hash of c2>>
    fs,         \* the file system below the working directory: path -> node
    pc,         \* run command: each process's position in cmd_run
    args,       \* run command: each process's arguments
    loc,        \* run command: each process's local variables
    trace,      \* run command: the steps each process has taken, in order
    wrote,      \* the <<process, path>> of every write of a run command
    report,     \* generate_report: the outcome of the call on each run directory
    repArgs,    \* generate_report: the arguments run_dir and out_dir
    calls,      \* generate_report: the calls made with these arguments
    runBefore,  \* what run_dir held before the first call
    outFirst    \* report.md and the assets directory after the first call

cfgVars == <<s, parsed, heap, cfg, overrides, before, out, c2, hashes>>
runVars == <<fs, pc, args, loc, trace, wrote, report>>
repVars == <<repArgs, calls, runBefore, outFirst>>
vars == <<cfgVars, runVars, repVars>>

----------------------------------------------------------------------------
(* Strings *)

Alphabet == {" ", ".", "1", "=", "a", "b"}

\* The code point of a character: Python compares str by code points.
Ord(c) ==
    CASE c = " " -> 32
      [] c = "." -> 46
      [] c = "1" -> 49
      [] c = "=" -> 61
      [] c = "a" -> 97
      [] c = "b" -> 98
      [] c = "d" -> 100
      [] c = "e" -> 101
      [] c = "s" -> 115

RECURSIVE StrLess(_, _)
\* x < y of two str: lexicographic by code point, a proper prefix first.
StrLess(x, y) ==
    IF y = <<>> THEN FALSE
    ELSE IF x = <<>> THEN TRUE
    ELSE IF Head(x) = Head(y) THEN StrLess(Tail(x), Tail(y))
    ELSE Ord(Head(x)) < Ord(Head(y))

\* The index of the first ch in x, 0 when there is none.
Find(x, ch) ==
    IF \E i \in 1..Len(x) : x[i] = ch
    THEN CHOOSE i \in 1..Len(x) : x[i] = ch /\ \A j \in 1..(i - 1) : x[j] # ch
    ELSE 0

RECURSIVE LStrip(_)
LStrip(x) == IF x # <<>> /\ Head(x) = " " THEN LStrip(Tail(x)) ELSE x

RECURSIVE RStrip(_)
RStrip(x) ==
    IF x # <<>> /\ x[Len(x)] = " " THEN RStrip(SubSeq(x, 1, Len(x) - 1)) ELSE x

\* str.strip()
Strip(x) == RStrip(LStrip(x))

RECURSIVE Split(_, _)
\* str.split(ch): the pieces between the occurrences of ch, empty ones kept.
Split(x, ch) ==
    LET i == Find(x, ch)
    IN  IF i = 0 THEN <<x>>
        ELSE <<SubSeq(x, 1, i - 1)>> \o Split(SubSeq(x, i + 1, Len(x)), ch)

RECURSIVE DigitsToInt(_)
DigitsToInt(x) ==
    IF x = <<>> THEN 0 ELSE 10 * DigitsToInt(SubSeq(x, 1, Len(x) - 1)) + 1

IsDigits(x) == x # <<>> /\ \A i \in 1..Len(x) : x[i] = "1"

----------------------------------------------------------------------------
(* parse_override *)

\* yaml.safe_load of a trimmed one-line scalar over Alphabet: the empty
\* document is None, digits are an int, digits around one dot are a float,
\* a lone "=" resolves to the value tag, which the safe constructor rejects,
\* and any other text is a plain str.
YamlSafeLoad(raw) ==
    LET dot == Find(raw, ".")
        w   == SubSeq(raw, 1, dot - 1)
        f   == SubSeq(raw, dot + 1, Len(raw))
    IN  IF raw = <<>> THEN <<"ok", <<"none">>>>
        ELSE IF raw = <<"=">> THEN <<"raise", "ConstructorError">>
        ELSE IF IsDigits(raw) THEN <<"ok", <<"int", DigitsToInt(raw)>>>>
        ELSE IF /\ dot > 0
                /\ w \o f # <<>>
                /\ \A i \in 1..Len(w \o f) : (w \o f)[i] = "1"
             THEN <<"ok", <<"float", DigitsToInt(w), f>>>>
        ELSE <<"ok", <<"str", raw>>>>

\* parse_override without its check of the key.
parse_override_AnyKey(x) ==
    LET eq   == Find(x, "=")
        key  == Strip(SubSeq(x, 1, eq - 1))
        raw  == Strip(SubSeq(x, eq + 1, Len(x)))
        v    == YamlSafeLoad(raw)
    IN  IF eq = 0 THEN <<"raise", "ValueError">>
        ELSE IF v[1] = "raise" THEN v
        ELSE <<"ok", Split(key, "."), v[2]>>

parse_override(x) ==
    LET eq   == Find(x, "=")
        key  == Strip(SubSeq(x, 1, eq - 1))
        raw  == Strip(SubSeq(x, eq + 1, Len(x)))
        keys == Split(key, ".")
        v    == YamlSafeLoad(raw)
    IN  IF eq = 0 THEN <<"raise", "ValueError">>
        ELSE IF key = <<>> THEN <<"raise", "ValueError">>
        ELSE IF v[1] = "raise" THEN v
        ELSE <<"ok", keys, v[2]>>

----------------------------------------------------------------------------
(* dict objects *)

\* The position of key k in dict d, 0 when d has no such key.
DictIndex(d, k) ==
    IF \E i \in 1..Len(d) : d[i][1] = k
    THEN CHOOSE i \in 1..Len(d) : d[i][1] = k
    ELSE 0

\* d[k]
DictGet(d, k) == d[DictIndex(d, k)][2]

\* d.setdefault(k, v) in place of d[k] = v: a key d holds keeps its value.
DictSetDefault(d, k, v) ==
    IF DictIndex(d, k) = 0 THEN Append(d, <<k, v>>) ELSE d

\* d[k] = v: a key d holds keeps its position, a new key goes last.
DictSet(d, k, v) ==
    IF DictIndex(d, k) = 0 THEN Append(d, <<k, v>>)
    ELSE [d EXCEPT ![DictIndex(d, k)] = <<k, v>>]

RECURSIVE Deref(_, _)
\* The structure of dict object id, its nested dicts in place of their ids.
Deref(h, id) ==
    [i \in 1..Len(h[id]) |->
        LET e == h[id][i]
        IN  IF e[2][1] = "dict" THEN <<e[1], <<"dict", Deref(h, e[2][2])>>>> ELSE e]

RECURSIVE GetPath(_, _, _)
\* The value the dict object id holds at the key path keys, <<"missing">>
\* when the path leaves the mapping.
GetPath(h, id, keys) ==
    IF DictIndex(h[id], Head(keys)) = 0 THEN <<"missing">>
    ELSE LET v == DictGet(h[id], Head(keys))
         IN  IF Len(keys) = 1 THEN v
             ELSE IF v[1] # "dict" THEN <<"missing">>
             ELSE GetPath(h, v[2], Tail(keys))

RECURSIVE set_by_path(_, _, _, _)
\* The heap after set_by_path(d, keys, value), and the error it raised.
set_by_path(h, d, keys, value) ==
    IF Len(keys) = 1
    THEN [heap |-> [h EXCEPT ![d] = DictSet(h[d], keys[1], value)], err |-> "none"]
    ELSE LET k  == Head(keys)
             h1 == IF DictIndex(h[d], k) # 0 THEN h
                   ELSE Append([h EXCEPT ![d] = DictSet(h[d], k, <<"dict", Len(h) + 1>>)],
                               <<>>)
             v  == DictGet(h1[d], k)
         IN  IF v[1] # "dict" THEN [heap |-> h1, err |-> "TypeError"]
             ELSE set_by_path(h1, v[2], Tail(keys), value)

\* copy.copy in place of copy.deepcopy: a new root that shares the nested dicts.
shallowcopy(h, id) == [heap |-> Append(h, h[id]), id |-> Len(h) + 1]

RECURSIVE deepcopy(_, _)
RECURSIVE CopyItems(_, _, _, _)
\* deepcopy's loop over x.items(): entries i.. of object src, copied into y.
CopyItems(h, src, i, y) ==
    IF i > Len(h[src]) THEN h
    ELSE LET e == h[src][i]
         IN  IF e[2][1] = "dict"
             THEN LET c == deepcopy(h, e[2][2])
                  IN  CopyItems([c.heap EXCEPT ![y] = Append(@, <<e[1], <<"dict", c.id>>>>)],
                                src, i + 1, y)
             ELSE CopyItems([h EXCEPT ![y] = Append(@, e)], src, i + 1, y)

\* copy.deepcopy of a dict: a new object for it and for each dict below it.
deepcopy(h, id) ==
    [heap |-> CopyItems(Append(h, <<>>), id, 1, Len(h) + 1), id |-> Len(h) + 1]

RECURSIVE ApplyLoop(_, _, _)
\* apply_overrides' loop: the first override that fails ends the call, and
\* what the earlier ones wrote to o stays written.
ApplyLoop(h, o, ovs) ==
    IF ovs = <<>> THEN [heap |-> h, res |-> <<"ok", o>>]
    ELSE LET p == parse_override(Head(ovs))
         IN  IF p[1] = "raise" THEN [heap |-> h, res |-> p]
             ELSE LET w == set_by_path(h, o, p[2], p[3])
                  IN  IF w.err # "none"
                      THEN [heap |-> w.heap, res |-> <<"raise", w.err>>]
                      ELSE ApplyLoop(w.heap, o, Tail(ovs))

apply_overrides(h, c, ovs) ==
    LET cp == deepcopy(h, c) IN ApplyLoop(cp.heap, cp.id, ovs)

----------------------------------------------------------------------------
(* config_hash *)

Digits == <<"0", "1", "2", "3", "4", "5", "6", "7", "8", "9">>

RECURSIVE IntToDigits(_)
\* str(n) of an int n >= 0
IntToDigits(n) ==
    IF n < 10 THEN <<Digits[n + 1]>>
    ELSE IntToDigits(n \div 10) \o <<Digits[(n % 10) + 1]>>

RECURSIVE SortedInsert(_, _)
SortedInsert(e, d) ==
    IF d = <<>> THEN <<e>>
    ELSE IF StrLess(e[1], Head(d)[1]) THEN <<e>> \o d
    ELSE <<Head(d)>> \o SortedInsert(e, Tail(d))

RECURSIVE SortedItems(_)
\* sorted(d.items()): the entries of d by key.
SortedItems(d) ==
    IF d = <<>> THEN <<>> ELSE SortedInsert(Head(d), SortedItems(Tail(d)))

\* json.dumps without sort_keys: the entries in insertion order.
UnsortedItems(d) == d

\* The order in which json.dumps(..., sort_keys=True) writes a dict's entries.
JsonItems(d) == SortedItems(d)

RECURSIVE JsonDict(_, _)
RECURSIVE JsonEntries(_, _)
\* The text of a scalar: null, an int's digits, a float's repr, a quoted str.
JsonScalar(v) ==
    CASE v[1] = "none"  -> <<"n", "u", "l", "l">>
      [] v[1] = "int"   -> IntToDigits(v[2])
      [] v[1] = "float" -> IntToDigits(v[2]) \o <<".">> \o (IF v[3] = <<>> THEN <<"0">> ELSE v[3])
      [] v[1] = "str"   -> <<"\"">> \o v[2] \o <<"\"">>

\* "key":value of each entry, joined by the separator ",".
JsonEntries(h, items) ==
    IF items = <<>> THEN <<>>
    ELSE LET e == Head(items)
             v == IF e[2][1] = "dict" THEN JsonDict(h, e[2][2]) ELSE JsonScalar(e[2])
         IN  <<"\"">> \o e[1] \o <<"\"", ":">> \o v
             \o (IF Tail(items) = <<>> THEN <<>> ELSE <<",">> \o JsonEntries(h, Tail(items)))

\* json.dumps(cfg, sort_keys=True, separators=(",", ":")) of dict object id.
JsonDict(h, id) == <<"{">> \o JsonEntries(h, JsonItems(h[id])) \o <<"}">>

\* hashlib.sha256(blob).hexdigest(), idealised: a digest that tells any two
\* blobs apart.
sha256(blob) == <<"sha256", blob>>

config_hash(h, id) == sha256(JsonDict(h, id))

----------------------------------------------------------------------------
(* input configs *)

DocKeys == {<<"a">>, <<"b">>}

RECURSIVE DictsOf(_)
\* The documents nested at most depth deep: a mapping is the sequence of
\* its <<key, value>> pairs in document order, a nested mapping <<"dict", m>>.
DictsOf(depth) ==
    LET vals == {<<"int", 1>>}
                \cup (IF depth > 1 THEN {<<"dict", m>> : m \in DictsOf(depth - 1)} ELSE {})
    IN  {m \in UNION {[1..n -> DocKeys \X vals] : n \in 0..Cardinality(DocKeys)} :
            \A i, j \in 1..Len(m) : m[i][1] = m[j][1] => i = j}

RECURSIVE Entries(_)
\* The number of keys of a document, at all levels together.
Entries(m) ==
    IF m = <<>> THEN 0
    ELSE 1 + (IF Head(m)[2][1] = "dict" THEN Entries(Head(m)[2][2]) ELSE 0)
           + Entries(Tail(m))

Docs == {m \in DictsOf(MaxDepth) : Entries(m) <= MaxEntries}

RECURSIVE Reorderings(_)
\* The documents with the content of m: the same keys with the same values
\* at every level, written in any order.
Reorderings(m) ==
    LET variants(e) == IF e[2][1] = "dict"
                       THEN {<<e[1], <<"dict", r>>>> : r \in Reorderings(e[2][2])}
                       ELSE {e}
    IN  {q \in [1..Len(m) -> UNION {variants(m[i]) : i \in 1..Len(m)}] :
            \A i, j \in 1..Len(q) : q[i][1] = q[j][1] => i = j}

RECURSIVE Construct(_, _)
RECURSIVE ConstructItems(_, _, _)
ConstructItems(h, m, y) ==
    IF m = <<>> THEN h
    ELSE LET e == Head(m)
         IN  IF e[2][1] = "dict"
             THEN LET c == Construct(h, e[2][2])
                  IN  ConstructItems([c.heap EXCEPT ![y] = Append(@, <<e[1], <<"dict", c.id>>>>)],
                                     Tail(m), y)
             ELSE ConstructItems([h EXCEPT ![y] = Append(@, e)], Tail(m), y)

\* The loader's construction of document m: a dict object per mapping, the
\* keys inserted in document order.
Construct(h, m) ==
    [heap |-> ConstructItems(Append(h, <<>>), m, Len(h) + 1), id |-> Len(h) + 1]

Strings == UNION {[1..n -> Alphabet] : n \in 0..MaxLen}

\* The --set arguments of the override engine's specification.
SetArgs ==
    { <<"a", "=", "1">>,
      <<"a", "=", "b">>,
      <<"a", ".", "b", "=", "1">>,
      <<" ", "a", ".", "b", " ", "=", " ", "1", "1">>,
      <<"b", ".", "a", ".", "b", "=">>,
      <<"a">>,
      <<"=", "1">> }

SetLists == UNION {[1..n -> SetArgs] : n \in 0..MaxOverrides}

----------------------------------------------------------------------------
(* The file system: a path is the tuple of its components below the working
   directory, a node <<"dir">> or <<"file", text>>, a text the sequence of
   its chunks, <<>> the empty text. *)

Exists(f, p) == p \in DOMAIN f
IsDir(f, p) == Exists(f, p) /\ f[p][1] = "dir"
IsFile(f, p) == Exists(f, p) /\ f[p][1] = "file"
Parent(p) == SubSeq(p, 1, Len(p) - 1)
Put(f, p, node) == [q \in DOMAIN f \cup {p} |-> IF q = p THEN node ELSE f[q]]

\* p is path d or lies below it.
Under(p, d) == Len(p) >= Len(d) /\ SubSeq(p, 1, Len(d)) = d

\* What f holds at d and below.
Tree(f, d) == [p \in {q \in DOMAIN f : Under(q, d)} |-> f[p]]

RECURSIVE PathMkdir(_, _, _, _)
\* Path.mkdir(parents, exist_ok): the file system after it and the error it
\* raised. The directory itself is made by one os.mkdir, which fails when
\* the name is taken.
PathMkdir(f, p, parents, exist_ok) ==
    IF Exists(f, p)
    THEN [fs |-> f, err |-> IF exist_ok /\ IsDir(f, p) THEN "none" ELSE "FileExistsError"]
    ELSE IF ~Exists(f, Parent(p))
    THEN IF ~parents THEN [fs |-> f, err |-> "FileNotFoundError"]
         ELSE LET up == PathMkdir(f, Parent(p), TRUE, TRUE)
              IN  IF up.err # "none" THEN up
                  ELSE [fs |-> Put(up.fs, p, <<"dir">>), err |-> "none"]
    ELSE IF ~IsDir(f, Parent(p)) THEN [fs |-> f, err |-> "NotADirectoryError"]
    ELSE [fs |-> Put(f, p, <<"dir">>), err |-> "none"]

\* The directories PathMkdir(f, p, TRUE, ...) makes: p and its missing ancestors.
RECURSIVE Made(_, _)
Made(f, p) == IF Exists(f, p) THEN {} ELSE {p} \cup Made(f, Parent(p))

\* open(p, "w"): the file exists and is empty until the text is written.
OpenW(f, p) == Put(f, p, <<"file", <<>>>>)
\* The write and close of Path.write_text.
WriteText(f, p, text) == Put(f, p, <<"file", text>>)
\* A line written by the logger's FileHandler, opened for append.
AppendLine(f, p, line) == Put(f, p, <<"file", Append(f[p][2], line)>>)

----------------------------------------------------------------------------
(* load_config *)

\* Path.suffix of the config file names of the model.
Suffix(name) ==
    CASE name = "conf.yaml" -> ".yaml"
      [] name = "nope.yaml" -> ".yaml"
      [] name = "empty.YML" -> ".YML"
      [] name = "list.json" -> ".json"
      [] name = "conf.txt"  -> ".txt"

\* str.lower() of a suffix
Lower(sfx) == IF sfx = ".YML" THEN ".yml" ELSE sfx

\* yaml.safe_load or json.loads of a config file's text: a text is one chunk,
\* the document it denotes, a mapping <<"mapping", m>> or a list; the empty
\* text is YAML for None and no JSON at all.
ParseText(text, sfx) ==
    IF text = <<>>
    THEN IF sfx = ".json" THEN <<"raise", "JSONDecodeError">> ELSE <<"ok", <<"none">>>>
    ELSE <<"ok", text[1]>>

\* load_config(path): <<"ok", heap, id of the dict>> or <<"raise", error>>.
load_config(f, h, path) ==
    LET sfx  == Lower(Suffix(path[Len(path)]))
        data == ParseText(f[path][2], sfx)
    IN  IF ~Exists(f, path) THEN <<"raise", "FileNotFoundError">>
        ELSE IF sfx \notin {".yaml", ".yml", ".json"} THEN <<"raise", "ValueError">>
        ELSE IF data[1] = "raise" THEN data
        ELSE IF data[2] = <<"none">> THEN <<"ok", Append(h, <<>>), Len(h) + 1>>
        ELSE IF data[2][1] # "mapping" THEN <<"raise", "TypeError">>
        ELSE <<"ok", Construct(h, data[2][2]).heap, Construct(h, data[2][2]).id>>

RECURSIVE SortedDeref(_, _)
\* The document yaml.safe_dump(cfg, sort_keys=True) writes: the keys of
\* every mapping in sorted order.
SortedDeref(h, id) ==
    LET items == SortedItems(h[id])
    IN  [i \in 1..Len(items) |->
            IF items[i][2][1] = "dict"
            THEN <<items[i][1], <<"dict", SortedDeref(h, items[i][2][2])>>>>
            ELSE items[i]]

\* The text dump_yaml writes, one chunk.
YamlSafeDump(h, id) == <<<<"mapping", SortedDeref(h, id)>>>>

----------------------------------------------------------------------------
(* core/tracking.py *)

\* What subprocess.run can do with a provenance command: exit 0 with output,
\* exit 0 with none, exit non-zero, or fail to start because the executable
\* is missing.
CmdOutcomes == {<<"exit", 0, "out">>, <<"exit", 0, "">>, <<"exit", 1, "fatal">>,
                <<"raise", "FileNotFoundError">>}
\* The same for pip freeze, which lists at least this package.
PipOutcomes == CmdOutcomes \ {<<"exit", 0, "">>}

\* get_git_commit, given what _run_cmd did.
get_git_commit(r) ==
    IF r[1] = "raise" THEN r
    ELSE <<"ok", IF r[2] = 0 /\ r[3] # "" THEN <<"str", r[3]>> ELSE <<"none">>>>

\* is_git_dirty, given what _run_cmd did.
is_git_dirty(r) ==
    IF r[1] = "raise" THEN r
    ELSE <<"ok", IF r[2] # 0 THEN <<"none">> ELSE <<"bool", r[3] # "">>>>

\* pip_freeze, given what _run_cmd did: the listing, or the error raised.
pip_freeze(r) ==
    IF r[1] = "raise" THEN r
    ELSE IF r[2] # 0 THEN <<"raise", "RuntimeError">>
    ELSE <<"ok", <<<<"text", r[3]>>>>>>

sha256_text(text) == sha256(text)

----------------------------------------------------------------------------
(* cli.py: the run command *)

\* The run commands that may run at once.
Procs == {1, 2}

\* The identifiers _make_run_id can return: a timestamp and a random suffix,
\* so that two commands may or may not draw the same one.
RunIds == {"r1", "r2"}

\* The command lines of the model: config path, seed, --set overrides.
Invocations ==
    { [argv |-> "exp run", config |-> <<"none">>, seed |-> <<"none">>, set |-> <<>>],
      [argv |-> "exp run -c conf.yaml --seed 7 --set a.b=11",
       config |-> <<"path", <<"conf.yaml">>>>, seed |-> <<"int", 7>>,
       set |-> <<<<"a", ".", "b", "=", "1", "1">>>>],
      [argv |-> "exp run -c nope.yaml",
       config |-> <<"path", <<"nope.yaml">>>>, seed |-> <<"none">>, set |-> <<>>],
      [argv |-> "exp run -c conf.txt",
       config |-> <<"path", <<"conf.txt">>>>, seed |-> <<"none">>, set |-> <<>>],
      [argv |-> "exp run -c list.json",
       config |-> <<"path", <<"list.json">>>>, seed |-> <<"none">>, set |-> <<>>],
      [argv |-> "exp run -c empty.YML --set a",
       config |-> <<"path", <<"empty.YML">>>>, seed |-> <<"none">>, set |-> <<<<"a">>>>],
      [argv |-> "exp run -c conf.yaml --set a.b.a=1",
       config |-> <<"path", <<"conf.yaml">>>>, seed |-> <<"none">>,
       set |-> <<<<"a", ".", "b", ".", "a", "=", "1">>>>] }

\* The working directory before any run: the config files.
InitialFs ==
    LET doc == <<<<"mapping", << <<<<"b">>, <<"int", 1>>>>,
                                 <<<<"a">>, <<"dict", << <<<<"b">>, <<"int", 1>>>> >>>>>> >>>>>>
    IN  (<<>> :> <<"dir">>)
        @@ (<<"conf.yaml">> :> <<"file", doc>>)
        @@ (<<"empty.YML">> :> <<"file", <<>>>>)
        @@ (<<"list.json">> :> <<"file", <<<<"sequence">>>>>>)
        @@ (<<"conf.txt">> :> <<"file", doc>>)

RunDir(rid) == <<"runs", rid>>
LogPath(rid) == <<"runs", rid, "logs", "run.log">>
ConfigPath(rid) == <<"runs", rid, "config_final.yaml">>
DepsPath(rid) == <<"runs", rid, "deps", "pip_freeze.txt">>
MetaPath(rid) == <<"runs", rid, "meta.json">>

\* cmd_run with the run directory made before the config is loaded.
OrderDirFirst ==
    <<"mkdir", "logger", "load", "overrides", "dump", "dump_w", "hash", "deps", "deps_w",
      "git_commit", "git_dirty", "meta", "meta_w", "finish", "done">>

\* cmd_run with meta.json written before the config snapshot.
OrderMetaFirst ==
    <<"load", "overrides", "mkdir", "logger", "meta", "meta_w", "dump", "dump_w", "hash",
      "deps", "deps_w", "git_commit", "git_dirty", "finish", "done">>

\* The statements of cmd_run in the order it executes them; a write_text is
\* two steps, the open that creates the empty file and the write.
Order ==
    <<"load", "overrides", "mkdir", "logger", "dump", "dump_w", "hash", "deps", "deps_w",
      "git_commit", "git_dirty", "meta", "meta_w", "finish", "done">>

\* The step that follows step; "begin" is the call of cmd_run.
After(step) ==
    IF step = "begin" THEN Order[1]
    ELSE Order[1 + CHOOSE i \in 1..Len(Order) : Order[i] = step]

\* mkdir(exist_ok=True) for the run directory.
exist_ok_true == TRUE

\* The exist_ok cmd_run passes when it makes the run directory.
exist_ok_run_dir == FALSE

Ended == {"done", "raised", "killed"}

InitLocals ==
    [heap |-> <<>>, cfg |-> 0, config_path |-> <<"none">>, final_cfg |-> 0, run_id |-> "",
     chash |-> <<"none">>, deps |-> <<>>, deps_hash |-> <<"none">>,
     git_commit |-> <<"none">>, git_dirty |-> <<"none">>, err |-> "none"]

\* Process p has executed step and goes on to the next.
Goes(p, step) ==
    /\ pc' = [pc EXCEPT ![p] = After(step)]
    /\ trace' = [trace EXCEPT ![p] = Append(@, step)]

\* Process p has executed step, which raised e: no handler, the command ends.
Raises(p, step, e) ==
    /\ pc' = [pc EXCEPT ![p] = "raised"]
    /\ trace' = [trace EXCEPT ![p] = Append(@, step)]
    /\ loc' = [loc EXCEPT ![p].err = e]

\* 1) load config (optional)
LoadConfig(p) ==
    /\ pc[p] = "load"
    /\ IF args[p].config = <<"none">>
       THEN /\ loc' = [loc EXCEPT ![p].heap = Append(@, <<>>), ![p].cfg = Len(loc[p].heap) + 1]
            /\ Goes(p, "load")
       ELSE LET r == load_config(fs, loc[p].heap, args[p].config[2])
            IN  IF r[1] = "raise" THEN Raises(p, "load", r[2])
                ELSE /\ loc' = [loc EXCEPT ![p].heap = r[2], ![p].cfg = r[3],
                                           ![p].config_path = <<"str", args[p].config[2]>>]
                     /\ Goes(p, "load")
    /\ UNCHANGED <<fs, args, wrote, report, cfgVars, repVars>>

\* 2) apply seed & overrides -> final config snapshot
SeedAndOverrides(p) ==
    /\ pc[p] = "overrides"
    /\ LET l  == loc[p]
           h1 == IF args[p].seed = <<"none">> THEN l.heap
                 ELSE [l.heap EXCEPT ![l.cfg] = DictSet(@, <<"s", "e", "e", "d">>, args[p].seed)]
           r  == apply_overrides(h1, l.cfg, args[p].set)
       IN  IF r.res[1] = "raise"
           THEN /\ pc' = [pc EXCEPT ![p] = "raised"]
                /\ trace' = [trace EXCEPT ![p] = Append(@, "overrides")]
                /\ loc' = [loc EXCEPT ![p].heap = r.heap, ![p].err = r.res[2]]
           ELSE /\ loc' = [loc EXCEPT ![p].heap = r.heap, ![p].final_cfg = r.res[2]]
                /\ Goes(p, "overrides")
    /\ UNCHANGED <<fs, args, wrote, report, cfgVars, repVars>>

\* 3) create run folder
MakeRunDir(p) ==
    /\ pc[p] = "mkdir"
    /\ \E rid \in RunIds :
        LET r == PathMkdir(fs, RunDir(rid), TRUE, exist_ok_run_dir)
        IN  IF r.err # "none"
            THEN /\ pc' = [pc EXCEPT ![p] = "raised"]
                 /\ trace' = [trace EXCEPT ![p] = Append(@, "mkdir")]
                 /\ loc' = [loc EXCEPT ![p].run_id = rid, ![p].err = r.err]
                 /\ UNCHANGED <<fs, wrote>>
            ELSE /\ fs' = r.fs
                 /\ wrote' = wrote \cup {<<p, q>> : q \in Made(fs, RunDir(rid))}
                 /\ loc' = [loc EXCEPT ![p].run_id = rid]
                 /\ Goes(p, "mkdir")
    /\ UNCHANGED <<args, report, cfgVars, repVars>>

\* logger.info: a line appended to the run's log.
Logged(f, p, msg) == AppendLine(f, LogPath(loc[p].run_id), <<"INFO", msg>>)

\* 4) logs: the log directory, the log file opened for append, the first line
SetupLogger(p) ==
    /\ pc[p] = "logger"
    /\ LET path == LogPath(loc[p].run_id)
           d    == PathMkdir(fs, Parent(path), TRUE, TRUE).fs
           f    == IF Exists(d, path) THEN d ELSE OpenW(d, path)
       IN  /\ fs' = Logged(f, p, "run started")
           /\ wrote' = wrote \cup {<<p, q>> : q \in Made(fs, Parent(path)) \cup {path}}
    /\ Goes(p, "logger")
    /\ UNCHANGED <<args, loc, report, cfgVars, repVars>>

\* 5) write final config: dump_yaml opens config_final.yaml ...
DumpOpen(p) ==
    /\ pc[p] = "dump"
    /\ fs' = OpenW(fs, ConfigPath(loc[p].run_id))
    /\ wrote' = wrote \cup {<<p, ConfigPath(loc[p].run_id)>>}
    /\ Goes(p, "dump")
    /\ UNCHANGED <<args, loc, report, cfgVars, repVars>>

\* ... and writes the YAML of final_cfg
DumpWrite(p) ==
    /\ pc[p] = "dump_w"
    /\ fs' = WriteText(fs, ConfigPath(loc[p].run_id), YamlSafeDump(loc[p].heap, loc[p].final_cfg))
    /\ wrote' = wrote \cup {<<p, ConfigPath(loc[p].run_id)>>}
    /\ Goes(p, "dump_w")
    /\ UNCHANGED <<args, loc, report, cfgVars, repVars>>

\* 5) ... + hash
HashConfig(p) ==
    /\ pc[p] = "hash"
    /\ loc' = [loc EXCEPT ![p].chash = <<"str", config_hash(loc[p].heap, loc[p].final_cfg)>>]
    /\ fs' = Logged(fs, p, "config_hash")
    /\ wrote' = wrote \cup {<<p, LogPath(loc[p].run_id)>>}
    /\ Goes(p, "hash")
    /\ UNCHANGED <<args, report, cfgVars, repVars>>

\* 6) deps snapshot: pip_freeze(), then write_text opens deps/pip_freeze.txt;
\* any exception is caught and logged, and deps_hash stays None
DepsSnapshot(p) ==
    /\ pc[p] = "deps"
    /\ \E r \in PipOutcomes :
        LET d    == pip_freeze(r)
            path == DepsPath(loc[p].run_id)
        IN  IF d[1] = "raise"
            THEN /\ fs' = Logged(fs, p, "deps snapshot failed")
                 /\ wrote' = wrote \cup {<<p, LogPath(loc[p].run_id)>>}
                 /\ pc' = [pc EXCEPT ![p] = After("deps_w")]
                 /\ trace' = [trace EXCEPT ![p] = Append(@, "deps")]
                 /\ UNCHANGED loc
            ELSE /\ fs' = OpenW(PathMkdir(fs, Parent(path), TRUE, TRUE).fs, path)
                 /\ wrote' = wrote \cup {<<p, q>> : q \in Made(fs, Parent(path)) \cup {path}}
                 /\ loc' = [loc EXCEPT ![p].deps = d[2]]
                 /\ Goes(p, "deps")
    /\ UNCHANGED <<args, report, cfgVars, repVars>>

\* 6) ... the listing written, its hash taken and logged
DepsWrite(p) ==
    /\ pc[p] = "deps_w"
    /\ fs' = Logged(WriteText(fs, DepsPath(loc[p].run_id), loc[p].deps), p, "deps_hash")
    /\ wrote' = wrote \cup {<<p, DepsPath(loc[p].run_id)>>, <<p, LogPath(loc[p].run_id)>>}
    /\ loc' = [loc EXCEPT ![p].deps_hash = <<"str", sha256_text(loc[p].deps)>>]
    /\ Goes(p, "deps_w")
    /\ UNCHANGED <<args, report, cfgVars, repVars>>

\* 7) git info: get_git_commit, outside any try
GitCommit(p) ==
    /\ pc[p] = "git_commit"
    /\ \E r \in CmdOutcomes :
        LET g == get_git_commit(r)
        IN  IF g[1] = "raise" THEN Raises(p, "git_commit", g[2])
            ELSE loc' = [loc EXCEPT ![p].git_commit = g[2]] /\ Goes(p, "git_commit")
    /\ UNCHANGED <<fs, args, wrote, report, cfgVars, repVars>>

\* 7) ... is_git_dirty, outside any try, and the log line
GitDirty(p) ==
    /\ pc[p] = "git_dirty"
    /\ \E r \in CmdOutcomes :
        LET g == is_git_dirty(r)
        IN  IF g[1] = "raise"
            THEN Raises(p, "git_dirty", g[2]) /\ UNCHANGED <<fs, wrote>>
            ELSE /\ loc' = [loc EXCEPT ![p].git_dirty = g[2]]
                 /\ fs' = Logged(fs, p, "git_commit git_dirty")
                 /\ wrote' = wrote \cup {<<p, LogPath(loc[p].run_id)>>}
                 /\ Goes(p, "git_dirty")
    /\ UNCHANGED <<args, report, cfgVars, repVars>>

\* asdict(meta): the RunMeta of process p.
RunMeta(p) ==
    [run_id |-> <<"str", loc[p].run_id>>, created_at |-> <<"str", "utc-now">>,
     command |-> <<"str", args[p].argv>>, cwd |-> <<"str", "cwd">>,
     python_version |-> <<"str", "python">>, platform |-> <<"str", "platform">>,
     config_path |-> loc[p].config_path, config_hash |-> loc[p].chash,
     seed |-> args[p].seed, overrides |-> <<"list", args[p].set>>,
     git_commit |-> loc[p].git_commit, git_dirty |-> loc[p].git_dirty,
     deps_hash |-> loc[p].deps_hash, duration_sec |-> <<"float", 0, <<>>>>]

\* 8) meta: _write_json opens meta.json ...
MetaOpen(p) ==
    /\ pc[p] = "meta"
    /\ fs' = OpenW(fs, MetaPath(loc[p].run_id))
    /\ wrote' = wrote \cup {<<p, MetaPath(loc[p].run_id)>>}
    /\ Goes(p, "meta")
    /\ UNCHANGED <<args, loc, report, cfgVars, repVars>>

\* ... and writes the JSON of the RunMeta
MetaWrite(p) ==
    /\ pc[p] = "meta_w"
    /\ fs' = WriteText(fs, MetaPath(loc[p].run_id), <<<<"json", "object", RunMeta(p)>>>>)
    /\ wrote' = wrote \cup {<<p, MetaPath(loc[p].run_id)>>}
    /\ Goes(p, "meta_w")
    /\ UNCHANGED <<args, loc, report, cfgVars, repVars>>

\* The last log line, and return 0
Finish(p) ==
    /\ pc[p] = "finish"
    /\ fs' = Logged(fs, p, "run finished")
    /\ wrote' = wrote \cup {<<p, LogPath(loc[p].run_id)>>}
    /\ Goes(p, "finish")
    /\ UNCHANGED <<args, loc, report, cfgVars, repVars>>

\* The command is interrupted from outside, wherever it is.
Interrupt(p) ==
    /\ pc[p] \notin Ended
    /\ pc' = [pc EXCEPT ![p] = "killed"]
    /\ UNCHANGED <<fs, args, loc, trace, wrote, report, cfgVars, repVars>>

----------------------------------------------------------------------------
(* core/reporting.py *)

\* read_json: json.loads of a file's text. A JSON text is one chunk
\* <<"json", "object", o>> or <<"json", "array", a>>; the empty text, and any
\* other, is no JSON.
read_json(f, path) ==
    LET text == f[path][2]
    IN  IF text # <<>> /\ text[1][1] = "json" THEN <<"ok", text[1]>>
        ELSE <<"raise", "JSONDecodeError">>

\* generate_report that takes a missing meta.json for an empty record.
ReadMetaTolerant(f, run_dir) ==
    IF ~Exists(f, run_dir) THEN <<"raise", "FileNotFoundError">>
    ELSE IF ~Exists(f, run_dir \o <<"meta.json">>)
    THEN <<"ok", <<"json", "object", [run_id |-> <<"none">>]>>>>
    ELSE read_json(f, run_dir \o <<"meta.json">>)

\* generate_report's start: run_dir and meta.json must exist, and meta.json is read.
ReadMeta(f, run_dir) ==
    IF ~Exists(f, run_dir) THEN <<"raise", "FileNotFoundError">>
    ELSE IF ~Exists(f, run_dir \o <<"meta.json">>) THEN <<"raise", "FileNotFoundError">>
    ELSE read_json(f, run_dir \o <<"meta.json">>)

\* _as_str: None is the empty string.
AsStr(v) == IF v = <<"none">> THEN <<>> ELSE v

\* meta.get(k) of a JSON object
MetaGet(m, k) == IF k \in DOMAIN m THEN m[k] ELSE <<"none">>

SummaryFields ==
    <<"run_id", "created_at", "cwd", "command", "seed", "config_path", "config_hash",
      "deps_hash", "git_commit", "git_dirty", "duration_sec", "platform", "python_version">>

\* _render_kv_table of the summary rows
SummaryTable(m) ==
    [i \in 1..Len(SummaryFields) |-> <<SummaryFields[i], AsStr(MetaGet(m, SummaryFields[i]))>>]

IsScalar(v) == v[1] \in {"int", "float", "str", "bool", "none"}

RECURSIVE ScalarItems(_)
ScalarItems(items) ==
    IF items = <<>> THEN <<>>
    ELSE (IF IsScalar(Head(items)[2]) THEN <<<<Head(items)[1], AsStr(Head(items)[2])>>>> ELSE <<>>)
         \o ScalarItems(Tail(items))

\* _render_metrics_table: the scalar entries, sorted by key.
MetricsTable(items) == SortedItems(ScalarItems(items))

\* The names a plots directory may hold, in sorted order, and their suffixes.
PlotNames == <<"a.png", "assets", "b.JPG", "readme.txt", "report.md">>
PlotSuffix(name) ==
    CASE name = "a.png" -> ".png"
      [] name = "b.JPG" -> ".JPG"
      [] name = "readme.txt" -> ".txt"
      [] name = "report.md" -> ".md"
      [] name = "assets" -> ""
LowerSuffix(sfx) == IF sfx = ".JPG" THEN ".jpg" ELSE sfx

RECURSIVE CopyLoop(_, _, _, _)
\* copy_plot_assets' loop over sorted(plots_dir.iterdir()): the file system
\* after it and the names copied.
CopyLoop(f, plots, assets, names) ==
    IF names = <<>> THEN [fs |-> f, copied |-> <<>>]
    ELSE LET n == Head(names)
         IN  IF /\ IsFile(f, plots \o <<n>>)
                /\ LowerSuffix(PlotSuffix(n)) \in {".png", ".jpg", ".jpeg"}
             THEN LET rest == CopyLoop(Put(f, assets \o <<n>>, f[plots \o <<n>>]),
                                       plots, assets, Tail(names))
                  IN  [fs |-> rest.fs, copied |-> <<n>> \o rest.copied]
             ELSE CopyLoop(f, plots, assets, Tail(names))

copy_plot_assets(f, run_dir, assets) ==
    LET plots == run_dir \o <<"plots">>
    IN  IF ~Exists(f, plots) THEN [fs |-> f, copied |-> <<>>]
        ELSE CopyLoop(PathMkdir(f, assets, TRUE, TRUE).fs, plots, assets,
                      SelectSeq(PlotNames, LAMBDA n : Exists(f, plots \o <<n>>)))

\* The Markdown document, section by section.
Markdown(run_id, meta, metrics, copied, config_text) ==
    << <<"# Experiment Report", run_id>>,
       <<"## Summary", SummaryTable(meta)>>,
       <<"## Metrics", IF metrics # <<>> THEN MetricsTable(metrics) ELSE <<"not found">>>>,
       <<"## Plots", IF copied # <<>> THEN copied ELSE <<"not found">>>>,
       <<"## Final Config Snapshot", IF config_text # <<>> THEN config_text ELSE <<"not found">>>>,
       <<"## Reproduce", IF MetaGet(meta, "command") # <<"none">>
                         THEN MetaGet(meta, "command") ELSE <<"not recorded">>>> >>

\* report.md written into the run directory.
ReportPathInRunDir(run_dir, out_dir) == run_dir \o <<"report.md">>

\* report_path = out_dir / "report.md"
ReportPath(run_dir, out_dir) == out_dir \o <<"report.md">>

\* generate_report(run_dir, out_dir): the file system after the call, and
\* <<"ok", report path>> or <<"raise", error>>.
generate_report(f, run_dir, out_dir) ==
    LET meta    == ReadMeta(f, run_dir)
        cfgp    == run_dir \o <<"config_final.yaml">>
        ctext   == IF Exists(f, cfgp) THEN f[cfgp][2] ELSE <<>>
        mpath   == run_dir \o <<"metrics.json">>
        metrics == IF Exists(f, mpath) THEN read_json(f, mpath)
                   ELSE <<"ok", <<"json", "object", <<>>>>>>
        f1      == PathMkdir(f, out_dir, TRUE, TRUE).fs
        cp      == copy_plot_assets(f1, run_dir, out_dir \o <<"assets">>)
    IN  IF meta[1] = "raise" THEN [fs |-> f, res |-> meta]
        ELSE IF metrics[1] = "raise" THEN [fs |-> f, res |-> metrics]
        \* meta.get of a JSON array, or .items() of a non-empty one
        ELSE IF meta[2][2] # "object" THEN [fs |-> cp.fs, res |-> <<"raise", "AttributeError">>]
        ELSE IF metrics[2][2] # "object" /\ metrics[2][3] # <<>>
             THEN [fs |-> cp.fs, res |-> <<"raise", "AttributeError">>]
        ELSE [fs  |-> WriteText(cp.fs, ReportPath(run_dir, out_dir),
                                Markdown(run_dir[Len(run_dir)], meta[2][3], metrics[2][3],
                                         cp.copied, ctext)),
              res |-> <<"ok", ReportPath(run_dir, out_dir)>>]

----------------------------------------------------------------------------
(* The parser: parse_override of every short string *)

\* No run command and no report.
RunIdle ==
    /\ fs = (<<>> :> <<"dir">>) /\ pc = <<>> /\ args = <<>> /\ loc = <<>> /\ trace = <<>>
    /\ wrote = {} /\ report = <<"todo">>

RepIdle == repArgs = <<>> /\ calls = 0 /\ runBefore = <<>> /\ outFirst = <<>>

\* No call of the parser, the override engine or the hasher.
CfgIdle ==
    /\ s = <<>> /\ parsed = <<"todo">>
    /\ heap = <<>> /\ cfg = 0 /\ overrides = <<>> /\ before = <<>>
    /\ out = <<"todo">> /\ c2 = 0 /\ hashes = <<"todo">>

InitParse ==
    /\ s \in Strings
    /\ parsed = <<"todo">>
    /\ heap = <<>> /\ cfg = 0 /\ overrides = <<>> /\ before = <<>>
    /\ out = <<"todo">> /\ c2 = 0 /\ hashes = <<"todo">>
    /\ RunIdle /\ RepIdle

ParseOverride ==
    /\ parsed = <<"todo">>
    /\ parsed' = parse_override(s)
    /\ UNCHANGED <<s, heap, cfg, overrides, before, out, c2, hashes, runVars, repVars>>

SpecParse == InitParse /\ [][ParseOverride]_vars

(* The override engine: apply_overrides of a config and a list of overrides *)

InitOverride ==
    /\ s = <<>> /\ parsed = <<"todo">>
    /\ \E m \in Docs :
        /\ heap = Construct(<<>>, m).heap
        /\ cfg = Construct(<<>>, m).id
        /\ before = m
    /\ overrides \in SetLists
    /\ out = <<"todo">> /\ c2 = 0 /\ hashes = <<"todo">>
    /\ RunIdle /\ RepIdle

ApplyOverrides ==
    /\ out = <<"todo">>
    /\ LET r == apply_overrides(heap, cfg, overrides)
       IN  heap' = r.heap /\ out' = r.res
    /\ UNCHANGED <<s, parsed, cfg, overrides, before, c2, hashes, runVars, repVars>>

SpecOverride == InitOverride /\ [][ApplyOverrides]_vars

(* The hasher: config_hash of two configs of equal content *)

InitHash ==
    /\ s = <<>> /\ parsed = <<"todo">>
    /\ \E m \in Docs :
        /\ heap = Construct(<<>>, m).heap
        /\ cfg = Construct(<<>>, m).id
        /\ before = m
    /\ overrides = <<>> /\ out = <<"todo">> /\ c2 = 0 /\ hashes = <<"todo">>
    /\ RunIdle /\ RepIdle

\* A second config is built with the content of the first, its keys inserted
\* in any order.
BuildReordered ==
    /\ c2 = 0
    /\ \E m \in Reorderings(before) :
        /\ heap' = Construct(heap, m).heap
        /\ c2' = Construct(heap, m).id
    /\ UNCHANGED <<s, parsed, cfg, overrides, before, out, hashes, runVars, repVars>>

ConfigHash ==
    /\ c2 # 0
    /\ hashes = <<"todo">>
    /\ hashes' = <<"ok", config_hash(heap, cfg), config_hash(heap, c2)>>
    /\ UNCHANGED <<s, parsed, heap, cfg, overrides, before, out, c2, runVars, repVars>>

SpecHash == InitHash /\ [][BuildReordered \/ ConfigHash]_vars


(* The run command: two commands at once, interrupted anywhere, and the
   report of each run directory once both have ended *)

InitRun ==
    /\ CfgIdle /\ RepIdle
    /\ fs = InitialFs
    /\ pc = [p \in Procs |-> After("begin")]
    /\ args \in [Procs -> Invocations]
    /\ loc = [p \in Procs |-> InitLocals]
    /\ trace = [p \in Procs |-> <<>>]
    /\ wrote = {}
    /\ report = [rid \in RunIds |-> <<"todo">>]

\* generate_report(runs/<rid>, reports/<rid>), after the commands have ended.
ReportRun(rid) ==
    /\ \A p \in Procs : pc[p] \in Ended
    /\ report[rid] = <<"todo">>
    /\ LET r == generate_report(fs, RunDir(rid), <<"reports", rid>>)
       IN  fs' = r.fs /\ report' = [report EXCEPT ![rid] = r.res]
    /\ UNCHANGED <<pc, args, loc, trace, wrote, cfgVars, repVars>>

NextRun ==
    \/ \E p \in Procs :
        \/ LoadConfig(p)
        \/ SeedAndOverrides(p)
        \/ MakeRunDir(p)
        \/ SetupLogger(p)
        \/ DumpOpen(p)
        \/ DumpWrite(p)
        \/ HashConfig(p)
        \/ DepsSnapshot(p)
        \/ DepsWrite(p)
        \/ GitCommit(p)
        \/ GitDirty(p)
        \/ MetaOpen(p)
        \/ MetaWrite(p)
        \/ Finish(p)
        \/ Interrupt(p)
    \/ \E rid \in RunIds : ReportRun(rid)

SpecRun == InitRun /\ [][NextRun]_vars


(* The report assembler: generate_report, called again and again on a run
   directory in any state of completeness *)

Absent == <<"absent">>

SampleMeta ==
    [run_id |-> <<"str", "r1">>, created_at |-> <<"str", "utc-now">>,
     command |-> <<"str", "exp run">>, seed |-> <<"int", 7>>, git_dirty |-> <<"bool", TRUE>>]

MetaOptions ==
    { Absent,
      <<"file", <<>>>>,
      <<"file", <<<<"json", "object", SampleMeta>>>>>>,
      <<"file", <<<<"json", "object", [run_id |-> <<"str", "r1">>]>>>>>>,
      <<"file", <<<<"json", "array", <<1>>>>>>>> }

ConfigOptions == {Absent, <<"file", <<>>>>, <<"file", <<<<"mapping", <<>>>>>>>>}

MetricsOptions ==
    { Absent,
      <<"file", <<>>>>,
      <<"file", <<<<"json", "array", <<1>>>>>>>>,
      <<"file", <<<<"json", "object",
                    << <<<<"b">>, <<"float", 0, <<"1">>>>>>,
                       <<<<"a", "b">>, <<"list">>>>,
                       <<<<"a">>, <<"int", 1>>>> >>>>>>>> }

\* What the plots directory may hold: nothing at all, images and a text
\* file, or a text file and a nested directory with an image.
PlotsOptions ==
    { {},
      { <<<<"plots">>, <<"dir">>>>,
        <<<<"plots", "b.JPG">>, <<"file", <<"jpg">>>>>>,
        <<<<"plots", "a.png">>, <<"file", <<"png">>>>>>,
        <<<<"plots", "readme.txt">>, <<"file", <<"txt">>>>>> },
      { <<<<"plots">>, <<"dir">>>>,
        <<<<"plots", "readme.txt">>, <<"file", <<"txt">>>>>>,
        <<<<"plots", "assets">>, <<"dir">>>>,
        <<<<"plots", "assets", "a.png">>, <<"file", <<"png">>>>>> } }

\* The out_dir arguments: beside the runs, the run directory itself, and its
\* plots directory.
OutDirs == {<<"reports", "r1">>, <<"runs", "r1">>, <<"runs", "r1", "plots">>}

\* The file system that holds the nodes of items, a set of <<path, node>>.
FsOf(items) == [q \in {i[1] : i \in items} |-> (CHOOSE i \in items : i[1] = q)[2]]

InitReport ==
    /\ CfgIdle
    /\ pc = <<>> /\ args = <<>> /\ loc = <<>> /\ trace = <<>> /\ wrote = {}
    /\ report = <<"todo">>
    /\ \E meta \in MetaOptions, config \in ConfigOptions, metrics \in MetricsOptions,
          plots \in PlotsOptions, run_exists \in BOOLEAN :
        LET d     == RunDir("r1")
            files == {<<d \o <<"meta.json">>, meta>>, <<d \o <<"config_final.yaml">>, config>>,
                      <<d \o <<"metrics.json">>, metrics>>}
            items == {<<<<>>, <<"dir">>>>, <<<<"runs">>, <<"dir">>>>, <<d, <<"dir">>>>}
                     \cup {i \in files : i[2] # Absent}
                     \cup {<<d \o i[1], i[2]>> : i \in plots}
        IN  /\ run_exists \/ (meta = Absent /\ config = Absent /\ metrics = Absent /\ plots = {})
            /\ fs = IF run_exists THEN FsOf(items) ELSE FsOf({<<<<>>, <<"dir">>>>})
    /\ repArgs \in {[run_dir |-> RunDir("r1"), out_dir |-> o] : o \in OutDirs}
    /\ calls = 0
    /\ runBefore = Tree(fs, RunDir("r1"))
    /\ outFirst = <<>>

\* report.md and the assets directory below out_dir.
OutState(f, out_dir) ==
    [report |-> IF Exists(f, out_dir \o <<"report.md">>) THEN f[out_dir \o <<"report.md">>]
                ELSE Absent,
     assets |-> Tree(f, out_dir \o <<"assets">>)]

GenerateReport ==
    /\ calls < MaxCalls
    /\ LET r == generate_report(fs, repArgs.run_dir, repArgs.out_dir)
       IN  /\ fs' = r.fs
           /\ report' = r.res
           /\ outFirst' = IF calls = 0 THEN OutState(r.fs, repArgs.out_dir) ELSE outFirst
    /\ calls' = calls + 1
    /\ UNCHANGED <<pc, args, loc, trace, wrote, repArgs, runBefore, cfgVars>>

SpecReport == InitReport /\ [][GenerateReport]_vars


----------------------------------------------------------------------------
(* Claims on the override engine and the hasher *)

\* C1: apply_overrides leaves cfg as it was, at every nesting level, whether
\* the call returns or an override fails to parse or to apply partway.
C1_CfgUntouched == Deref(heap, cfg) = before

\* C1's case: the second override raised in set_by_path after the first was
\* applied, on a config with a nested mapping.
C1_Witness ==
    /\ out = <<"raise", "TypeError">>
    /\ Len(overrides) = 2
    /\ parse_override(overrides[1])[1] = "ok"
    /\ \E i \in 1..Len(before) : before[i][2][1] = "dict"

\* Two overrides that name the same key path.
SamePath ==
    /\ Len(overrides) = 2
    /\ parse_override(overrides[1])[1] = "ok"
    /\ parse_override(overrides[2])[1] = "ok"
    /\ parse_override(overrides[1])[2] = parse_override(overrides[2])[2]

\* C2: of two overrides on the same key path the one later in the list
\* decides the value at that path in the result, in either order of the two;
\* the call raises only where the path runs through a scalar of cfg.
C2_LastWins ==
    SamePath =>
        LET keys == parse_override(overrides[2])[2]
        IN  /\ out[1] = "ok" =>
                GetPath(heap, out[2], keys) = parse_override(overrides[2])[3]
            /\ out[1] = "raise" =>
                /\ out[2] = "TypeError"
                /\ \E n \in 1..(Len(keys) - 1) :
                    GetPath(heap, cfg, SubSeq(keys, 1, n))[1] \in {"none", "int", "float", "str"}

\* C2's case: the call returned, and the two overrides carry different values.
C2_Witness ==
    /\ SamePath
    /\ out[1] = "ok"
    /\ parse_override(overrides[1])[3] # parse_override(overrides[2])[3]
    /\ Len(parse_override(overrides[2])[2]) = 2

\* C3: two configs of the same content, their keys inserted in any order at
\* any level, have the same config_hash.
C3_HashIgnoresOrder == hashes[1] = "ok" => hashes[2] = hashes[3]

\* C3's case: both hashed, and the two configs differ in the order of their
\* keys below the root.
C3_Witness ==
    /\ hashes[1] = "ok"
    /\ \E i \in 1..Len(heap[cfg]) :
        /\ heap[cfg][i][2][1] = "dict"
        /\ heap[c2][i][1] = heap[cfg][i][1]
        /\ heap[heap[c2][i][2][2]] # heap[heap[cfg][i][2][2]]

\* s has no "=".
NoEquals == \A i \in 1..Len(s) : s[i] # "="

\* Only blanks before the first "=" of s.
EmptyKey == \E i \in 1..Len(s) : s[i] = "=" /\ \A j \in 1..(i - 1) : s[j] = " "

\* Only blanks after the first "=" of s.
EmptyValue ==
    \E i \in 1..Len(s) :
        /\ s[i] = "="
        /\ \A j \in 1..(i - 1) : s[j] # "="
        /\ \A j \in (i + 1)..Len(s) : s[j] = " "

\* C4 as claimed: parse_override fails on a string with no "=", with an
\* empty key, or with an empty value.
C4_FailsOnEmptyValue ==
    (parsed # <<"todo">> /\ (NoEquals \/ EmptyKey \/ EmptyValue)) => parsed[1] = "raise"

\* C4, amended: parse_override fails on a string with no "=" or with an
\* empty key; with a key and an empty value it returns the key path and None.
C4_FailsOnNoEqualsOrEmptyKey ==
    parsed # <<"todo">> =>
        /\ (NoEquals \/ EmptyKey) => parsed = <<"raise", "ValueError">>
        /\ (EmptyValue /\ ~EmptyKey) => (parsed[1] = "ok" /\ parsed[3] = <<"none">>)

\* C4's case: a key and an empty value, parsed.
C4_Witness == parsed # <<"todo">> /\ EmptyValue /\ ~EmptyKey /\ Len(s) = MaxLen

----------------------------------------------------------------------------
(* Claims on the run command and the report assembler *)

Last(q) == q[Len(q)]
Did(p, step) == \E i \in 1..Len(trace[p]) : trace[p][i] = step

\* Process p made the run directory of its run identifier.
Created(p) == <<p, RunDir(loc[p].run_id)>> \in wrote

\* C5: of two run commands that computed the same run identifier and both
\* reached the creation of the run directory, exactly one created it; the
\* other failed there with a collision error and wrote nothing, neither the
\* directory nor any file in it.
C5_OneCreator ==
    \A p, q \in Procs :
        (p # q /\ Did(p, "mkdir") /\ Did(q, "mkdir") /\ loc[p].run_id = loc[q].run_id
         /\ Created(p)) =>
            /\ ~Created(q)
            /\ pc[q] = "raised" /\ loc[q].err = "FileExistsError"
            /\ \A w \in wrote : w[1] = q => ~Under(w[2], RunDir(loc[q].run_id))
            /\ \A w \in wrote : Under(w[2], RunDir(loc[p].run_id)) => w[1] = p

\* C5 also needs a creator: a command that ran mkdir made the directory, or
\* failed on a directory another command made.
C5_SomeCreator ==
    \A p \in Procs :
        Did(p, "mkdir") => \E q \in Procs : loc[q].run_id = loc[p].run_id /\ Created(q)

\* C5: both halves.
C5_ExactlyOneCreates == C5_OneCreator /\ C5_SomeCreator

\* C5's case: two commands drew the same identifier; one ran to its end,
\* the other failed on the directory.
C5_Witness ==
    \E p, q \in Procs :
        /\ p # q /\ loc[p].run_id = loc[q].run_id
        /\ pc[p] = "done" /\ pc[q] = "raised" /\ loc[q].err = "FileExistsError"

ReportedPartial(p) ==
    pc[p] = "killed" /\ Created(p) /\ report[loc[p].run_id] # <<"todo">>

\* C7 as claimed: generate_report succeeds on the run directory of a command
\* interrupted at any point after the directory was created.
C7_ReportToleratesPartial ==
    \A p \in Procs : ReportedPartial(p) => report[loc[p].run_id][1] = "ok"

\* C7, amended: generate_report succeeds on the run directory of an
\* interrupted command only if meta.json had been written in full; it raises
\* a not-found error if meta.json was not yet created and a JSON decode
\* error if it was created and not yet written.
C7_ReportNeedsMeta ==
    \A p \in Procs :
        ReportedPartial(p) =>
            report[loc[p].run_id] =
                IF Did(p, "meta_w") THEN <<"ok", <<"reports", loc[p].run_id, "report.md">>>>
                ELSE IF Did(p, "meta") THEN <<"raise", "JSONDecodeError">>
                ELSE <<"raise", "FileNotFoundError">>

\* C7's case: a command interrupted after the config snapshot and before
\* meta.json, and the report of its directory.
C7_Witness ==
    \E p \in Procs : ReportedPartial(p) /\ Did(p, "dump_w") /\ ~Did(p, "meta")

C9_DirBeforeConfig ==
    \A p \in Procs :
        \A i \in 1..Len(trace[p]) :
            trace[p][i] \in {"load", "overrides"} =>
                \E j \in 1..(i - 1) : trace[p][j] = "mkdir"

\* The order C9 gives, with the run directory after the config.
ConfigFirst ==
    <<"load", "overrides", "mkdir", "hash", "deps", "git_commit", "git_dirty">>

\* C9, amended: the config is loaded and the overrides applied first, then
\* the run directory is created, then the config hash is computed, then the
\* dependency snapshot and the git facts are collected; an error of config
\* loading or override parsing comes before any run directory: the command
\* has written nothing.
C9_ConfigBeforeDir ==
    \A p \in Procs :
        /\ LET InOrder(step) == \E n \in 1..Len(ConfigFirst) : ConfigFirst[n] = step
               taken == SelectSeq(trace[p], InOrder)
           IN  taken = SubSeq(ConfigFirst, 1, Len(taken))
        /\ (pc[p] = "raised" /\ Last(trace[p]) \in {"load", "overrides"}) =>
            \A w \in wrote : w[1] # p

\* C9's case: an override that failed to apply ended the command, and there
\* is no run directory.
C9_Witness ==
    \E p \in Procs :
        /\ pc[p] = "raised" /\ Last(trace[p]) = "overrides" /\ loc[p].err = "TypeError"
        /\ ~Exists(fs, <<"runs">>)

\* meta.json of run rid is written in full.
MetaDone(f, rid) == IsFile(f, MetaPath(rid)) /\ f[MetaPath(rid)][2] # <<>>

\* The hash of the config that config_final.yaml of run rid holds.
SnapshotHash(rid) ==
    LET c == Construct(<<>>, fs[ConfigPath(rid)][2][1][2])
    IN  <<"str", config_hash(c.heap, c.id)>>

\* C10: meta.json exists only if config_final.yaml is written; once written
\* meta.json is not written again and no file is created in the run
\* directory after it; and its config_hash is the hash of the config that
\* config_final.yaml holds.
C10_MetaLast ==
    /\ [](\A rid \in RunIds :
            /\ Exists(fs, MetaPath(rid)) =>
                IsFile(fs, ConfigPath(rid)) /\ fs[ConfigPath(rid)][2] # <<>>
            /\ MetaDone(fs, rid) =>
                fs[MetaPath(rid)][2][1][3].config_hash = SnapshotHash(rid))
    /\ [][\A rid \in RunIds :
            MetaDone(fs, rid) =>
                /\ fs'[MetaPath(rid)] = fs[MetaPath(rid)]
                /\ {q \in DOMAIN fs' : Under(q, RunDir(rid))}
                   = {q \in DOMAIN fs : Under(q, RunDir(rid))}]_vars

\* C10's case: a command run to its end with a seed and an override, its
\* meta.json written.
C10_Witness ==
    \E p \in Procs :
        /\ pc[p] = "done" /\ args[p].set # <<>>
        /\ MetaDone(fs, loc[p].run_id)

====
